---- MODULE Spec2Model ----
(***************************************************************************)
(* nanotar: createTar (src/src/item-types.ts) and parseTar                 *)
(* (src/src/parse.ts) as a state machine over byte buffers.                *)
(*                                                                         *)
(* Strings are sequences of character codes.  Every string of the model is *)
(* ASCII, where TextEncoder/TextDecoder map one character to one byte of   *)
(* the same value; truncation, NUL termination and zero fill are modelled  *)
(* as the code performs them.  Buffers are sequences of bytes; the byte at *)
(* the code's 0-based offset k is element k + 1.                           *)
(***************************************************************************)
EXTENDS Integers, Sequences, FiniteSets, TLC

(***************************************************************************)
(* Bounds of the model.                                                    *)
(***************************************************************************)
\* longest raw path the sanitizer is enumerated on
MaxPathLen == 6
\* longest list of input entries given to createTar
MaxFiles == 2
\* longest list of header records in a foreign archive given to parseTar
MaxRecords == 2

(***************************************************************************)
(* Characters and strings.                                                 *)
(***************************************************************************)
Code ==
  [nul |-> 0, tab |-> 9, nl |-> 10, vt |-> 11, ff |-> 12, cr |-> 13, sp |-> 32,
   plus |-> 43, minus |-> 45, dot |-> 46, slash |-> 47, zero |-> 48,
   colon |-> 58, eq |-> 61, bslash |-> 92]

Chr ==
  ("a" :> 97) @@ ("b" :> 98) @@ ("c" :> 99) @@ ("d" :> 100) @@ ("e" :> 101)
  @@ ("f" :> 102) @@ ("g" :> 103) @@ ("h" :> 104) @@ ("i" :> 105)
  @@ ("j" :> 106) @@ ("k" :> 107) @@ ("l" :> 108) @@ ("m" :> 109)
  @@ ("n" :> 110) @@ ("o" :> 111) @@ ("p" :> 112) @@ ("q" :> 113)
  @@ ("r" :> 114) @@ ("s" :> 115) @@ ("t" :> 116) @@ ("u" :> 117)
  @@ ("v" :> 118) @@ ("w" :> 119) @@ ("x" :> 120) @@ ("y" :> 121)
  @@ ("z" :> 122) @@ ("A" :> 65) @@ ("B" :> 66) @@ ("C" :> 67) @@ ("D" :> 68)
  @@ ("E" :> 69) @@ ("F" :> 70) @@ ("G" :> 71) @@ ("H" :> 72) @@ ("I" :> 73)
  @@ ("J" :> 74) @@ ("K" :> 75) @@ ("L" :> 76) @@ ("M" :> 77) @@ ("N" :> 78)
  @@ ("O" :> 79) @@ ("P" :> 80) @@ ("Q" :> 81) @@ ("R" :> 82) @@ ("S" :> 83)
  @@ ("T" :> 84) @@ ("U" :> 85) @@ ("V" :> 86) @@ ("W" :> 87) @@ ("X" :> 88)
  @@ ("Y" :> 89) @@ ("Z" :> 90) @@ ("0" :> 48) @@ ("1" :> 49) @@ ("2" :> 50)
  @@ ("3" :> 51) @@ ("4" :> 52) @@ ("5" :> 53) @@ ("6" :> 54) @@ ("7" :> 55)
  @@ ("8" :> 56) @@ ("9" :> 57) @@ ("." :> 46) @@ ("/" :> 47) @@ (":" :> 58)
  @@ ("=" :> 61) @@ (" " :> 32) @@ ("-" :> 45) @@ ("@" :> 64) @@ ("_" :> 95)
  @@ ("\\" :> 92) @@ ("\n" :> 10)

\* the string whose characters are the one-character strings of t
S(t) == [i \in DOMAIN t |-> Chr[t[i]]]

\* s repeated n times
Repeat(s, n) ==
  IF n <= 0 THEN <<>>
  ELSE <<>> \o [k \in 1..(n * Len(s)) |-> s[((k - 1) % Len(s)) + 1]]

\* String.prototype.startsWith / endsWith
StartsWith(s, pre) == Len(s) >= Len(pre) /\ SubSeq(s, 1, Len(pre)) = pre
EndsWith(s, suf) ==
  Len(s) >= Len(suf) /\ SubSeq(s, Len(s) - Len(suf) + 1, Len(s)) = suf

\* index of the first element of s in lo..hi equal to c, else 0 (by halving,
\* to keep the evaluation shallow)
RECURSIVE IndexIn(_, _, _, _)
IndexIn(s, c, lo, hi) ==
  IF lo > hi THEN 0
  ELSE IF lo = hi THEN (IF s[lo] = c THEN lo ELSE 0)
  ELSE LET mid == (lo + hi) \div 2
           left == IndexIn(s, c, lo, mid)
       IN  IF left # 0 THEN left ELSE IndexIn(s, c, mid + 1, hi)

\* index of the first element of s at or after position i equal to c, else 0
IndexFrom(s, c, i) == IndexIn(s, c, i, Len(s))

\* String.prototype.split(sep) for a one-character separator: the pieces
\* between separators, empty pieces kept ("" splits to [""])
RECURSIVE Split(_, _)
Split(s, sep) ==
  LET k == IndexFrom(s, sep, 1)
  IN  IF k = 0 THEN <<s>>
      ELSE <<SubSeq(s, 1, k - 1)>> \o Split(SubSeq(s, k + 1, Len(s)), sep)

\* Array.prototype.join(sep)
RECURSIVE Join(_, _)
Join(parts, sep) ==
  IF Len(parts) = 0 THEN <<>>
  ELSE IF Len(parts) = 1 THEN parts[1]
  ELSE parts[1] \o sep \o Join(Tail(parts), sep)

(***************************************************************************)
(* _sanitizePath (parse.ts 215-252).                                       *)
(***************************************************************************)
\* path.replace(/\\/g, "/")
NormalizeBackslashes(path) ==
  [i \in DOMAIN path |-> IF path[i] = Code.bslash THEN Code.slash ELSE path[i]]

IsLetter(c) == (c >= 65 /\ c <= 90) \/ (c >= 97 /\ c <= 122)

\* normalized.replace(/^[a-zA-Z]:\//, ""): one drive prefix, at the start only
StripDriveLetter(p) ==
  IF Len(p) >= 3 /\ IsLetter(p[1]) /\ p[2] = Code.colon /\ p[3] = Code.slash
  THEN SubSeq(p, 4, Len(p))
  ELSE p

\* normalized.replace(/^\/+/, "")
RECURSIVE StripLeadingSlashes(_)
StripLeadingSlashes(p) ==
  IF Len(p) > 0 /\ p[1] = Code.slash THEN StripLeadingSlashes(Tail(p)) ELSE p

\* a fold that keeps a ".." it has nothing to pop for
RECURSIVE ResolveParts_KeepUnpopped(_, _)
ResolveParts_KeepUnpopped(parts, resolved) ==
  IF Len(parts) = 0 THEN resolved
  ELSE LET part == Head(parts)
       IN  IF part = <<Code.dot, Code.dot>> /\ Len(resolved) > 0
           THEN ResolveParts_KeepUnpopped(Tail(parts), SubSeq(resolved, 1, Len(resolved) - 1))
           ELSE IF part # <<Code.dot>> /\ part # <<>>
           THEN ResolveParts_KeepUnpopped(Tail(parts), Append(resolved, part))
           ELSE ResolveParts_KeepUnpopped(Tail(parts), resolved)

\* the loop over parts: ".." pops (a pop of the empty list does nothing),
\* "." and "" are dropped, anything else is pushed
RECURSIVE ResolveParts(_, _)
ResolveParts(parts, resolved) ==
  IF Len(parts) = 0 THEN resolved
  ELSE LET part == Head(parts)
       IN  IF part = <<Code.dot, Code.dot>>
           THEN ResolveParts(Tail(parts),
                             IF Len(resolved) = 0 THEN resolved
                             ELSE SubSeq(resolved, 1, Len(resolved) - 1))
           ELSE IF part # <<Code.dot>> /\ part # <<>>
           THEN ResolveParts(Tail(parts), Append(resolved, part))
           ELSE ResolveParts(Tail(parts), resolved)

\* restore the leading "./" (parse.ts 241-244)
RestoreDotSlash(hasLeadingDotSlash, result) ==
  IF hasLeadingDotSlash /\ ~StartsWith(result, <<Code.dot, Code.slash>>)
  THEN <<Code.dot, Code.slash>> \o result
  ELSE result

\* a sanitizer that drops the directory marker
RestoreTrailingSlash_Never(path, result) == result

\* preserve the trailing slash (parse.ts 246-249)
RestoreTrailingSlash(path, result) ==
  IF EndsWith(path, <<Code.slash>>) /\ ~EndsWith(result, <<Code.slash>>)
  THEN result \o <<Code.slash>>
  ELSE result

_sanitizePath(path) ==
  LET normalized == StripLeadingSlashes(StripDriveLetter(NormalizeBackslashes(path)))
      hasLeadingDotSlash == StartsWith(normalized, <<Code.dot, Code.slash>>)
      parts == Split(normalized, Code.slash)
      resolved == ResolveParts(parts, <<>>)
      result == Join(resolved, <<Code.slash>>)
  IN  RestoreTrailingSlash(path, RestoreDotSlash(hasLeadingDotSlash, result))

(***************************************************************************)
(* Numbers.  A JavaScript number is an integer of the model or NaN.        *)
(***************************************************************************)
\* the value Number.parseInt returns when no digit is read
NaN == -2147483647

\* Math.trunc(a / b) for b > 0
TruncDiv(a, b) == IF a >= 0 THEN a \div b ELSE -((-a) \div b)

\* whether a % b is truthy (non-zero and not NaN) for b > 0
RemTruthy(a, b) == a # NaN /\ (IF a >= 0 THEN a % b ELSE (-a) % b) # 0

\* a + b in JavaScript numbers
JsAdd(a, b) == IF a = NaN \/ b = NaN THEN NaN ELSE a + b

\* a < b in JavaScript numbers: false when either is NaN
JsLess(a, b) == a # NaN /\ b # NaN /\ a < b

\* a conversion that writes the digits in base 10
RECURSIVE ToOctal_Base10(_)
ToOctal_Base10(n) ==
  IF n < 10 THEN <<Code.zero + n>>
  ELSE Append(ToOctal_Base10(n \div 10), Code.zero + (n % 10))

\* Number.prototype.toString(8) of a non-negative integer
RECURSIVE ToOctal(_)
ToOctal(n) ==
  IF n < 8 THEN <<Code.zero + n>> ELSE Append(ToOctal(n \div 8), Code.zero + (n % 8))

\* white space that String.prototype.trim and parseInt skip (ASCII part)
IsWhiteSpace(c) == c \in {Code.tab, Code.nl, Code.vt, Code.ff, Code.cr, Code.sp}

RECURSIVE TrimStart(_)
TrimStart(s) ==
  IF Len(s) > 0 /\ IsWhiteSpace(s[1]) THEN TrimStart(Tail(s)) ELSE s

RECURSIVE TrimEnd(_)
TrimEnd(s) ==
  IF Len(s) > 0 /\ IsWhiteSpace(s[Len(s)])
  THEN TrimEnd(SubSeq(s, 1, Len(s) - 1))
  ELSE s

\* String.prototype.trim
Trim(s) == TrimEnd(TrimStart(s))

\* the value of character c as a digit (36 when it is none)
DigitValue(c) ==
  IF c >= 48 /\ c <= 57 THEN c - 48
  ELSE IF c >= 97 /\ c <= 122 THEN c - 87
  ELSE IF c >= 65 /\ c <= 90 THEN c - 55
  ELSE 36

\* the leading run of radix-digits of s from position i on: <<value, count>>
RECURSIVE DigitRun(_, _, _, _, _)
DigitRun(s, i, radix, acc, count) ==
  IF i <= Len(s) /\ DigitValue(s[i]) < radix
  THEN DigitRun(s, i + 1, radix, acc * radix + DigitValue(s[i]), count + 1)
  ELSE <<acc, count>>

\* Number.parseInt(str, radix); radix 0 stands for the omitted argument
\* (10, or 16 after a 0x prefix)
ParseInt(str, radix) ==
  LET t == TrimStart(str)
      neg == Len(t) > 0 /\ t[1] = Code.minus
      signed == Len(t) > 0 /\ t[1] \in {Code.minus, Code.plus}
      u == IF signed THEN Tail(t) ELSE t
      hex == /\ radix \in {0, 16}
             /\ Len(u) >= 2
             /\ u[1] = Code.zero
             /\ u[2] \in {120, 88}
      r == IF hex THEN 16 ELSE IF radix = 0 THEN 10 ELSE radix
      v == IF hex THEN SubSeq(u, 3, Len(u)) ELSE u
      run == DigitRun(v, 1, r, 0, 0)
  IN  IF run[2] = 0 THEN NaN ELSE IF neg THEN -run[1] ELSE run[1]

(***************************************************************************)
(* Buffers and views.                                                      *)
(***************************************************************************)
\* new ArrayBuffer(n): n zero bytes
NewArrayBuffer(n) == <<>> \o [i \in 1..n |-> 0]

\* whether new Uint8Array(buffer, offset, length) throws a RangeError
ViewThrows(buffer, offset, length) ==
  \/ offset < 0
  \/ offset > Len(buffer)
  \/ length # NaN /\ (length < 0 \/ offset + length > Len(buffer))

\* the bytes of new Uint8Array(buffer, offset, length); a NaN length is 0
View(buffer, offset, length) ==
  SubSeq(buffer, offset + 1, offset + (IF length = NaN THEN 0 ELSE length))

\* the bytes _writeString leaves in a field of `size` bytes: encodeInto
\* writes the characters that fit, the rest of the field is zeroed
FieldBytes(str, size) ==
  IF Len(str) >= size THEN SubSeq(str, 1, size)
  ELSE str \o [i \in 1..(size - Len(str)) |-> 0]

\* buffer with `bytes` stored from 0-based offset on
WriteAt(buffer, offset, bytes) ==
  SubSeq(buffer, 1, offset) \o bytes
    \o SubSeq(buffer, offset + Len(bytes) + 1, Len(buffer))

\* _writeString (item-types.ts 322-329)
_writeString(buffer, str, offset, size) ==
  WriteAt(buffer, offset, FieldBytes(str, size))

\* _leftPad (item-types.ts 331-333): padStart with "0"
_leftPad(input, targetLength) ==
  Repeat(<<Code.zero>>, targetLength - Len(input)) \o input

\* _readString (parse.ts 254-259): the field up to its first NUL
_readString(buffer, offset, size) ==
  LET view == View(buffer, offset, size)
      i == IndexFrom(view, 0, 1)
  IN  IF i = 0 THEN view ELSE SubSeq(view, 1, i - 1)

\* a reader that takes the digits of the field in base 10
_readNumber_Base10(buffer, offset, size) == ParseInt(View(buffer, offset, size), 10)

\* _readNumber (parse.ts 261-268): every byte of the field, NULs included,
\* parsed in radix 8
_readNumber(buffer, offset, size) == ParseInt(View(buffer, offset, size), 8)

(***************************************************************************)
(* createTar (item-types.ts 185-282).                                      *)
(***************************************************************************)
\* the size of a header block and the unit payloads are padded to
BlockSize == 512
\* the unit the archive is padded to
RecordSize == 10240

\* JavaScript undefined, where a value of the model may be absent
Undefined == [undef |-> TRUE]

\* an object without properties (an entry's or the options' absent attrs)
NoAttrs == [k \in {} |-> 0]

\* _normalizeData (item-types.ts 335-346): a string is UTF-8 encoded, an
\* ArrayBuffer or Uint8Array is taken as its bytes, null/undefined stay
_normalizeData(data) ==
  IF "str" \in DOMAIN data THEN [bytes |-> data.str]
  ELSE IF "bytes" \in DOMAIN data THEN [bytes |-> data.bytes]
  ELSE Undefined

\* files.map(...) (item-types.ts 188-195)
NormalizeFile(file) ==
  LET data == _normalizeData(file.data)
  IN  [name |-> file.name, attrs |-> file.attrs, data |-> data,
       size |-> IF "bytes" \in DOMAIN data THEN Len(data.bytes) ELSE 0]

\* 512 * Math.trunc(size / 512), plus 512 if size % 512
PaddedSize(size) ==
  BlockSize * (size \div BlockSize) + (IF size % BlockSize # 0 THEN BlockSize ELSE 0)

\* tarDataSize (item-types.ts 198-205)
RECURSIVE TarDataSize(_)
TarDataSize(nfiles) ==
  IF Len(nfiles) = 0 THEN 0
  ELSE BlockSize + PaddedSize(Head(nfiles).size) + TarDataSize(Tail(nfiles))

\* a bufSize that forgets the partly filled last record
BufSize_NoRoundUp(tarDataSize) == RecordSize * (tarDataSize \div RecordSize)

\* bufSize (item-types.ts 206-209)
BufSize(tarDataSize) ==
  RecordSize * (tarDataSize \div RecordSize)
    + (IF tarDataSize % RecordSize # 0 THEN RecordSize ELSE 0)

\* a resolution in which the archive-wide attribute wins over the entry's
ResolveAttr_OptsFirst(file, opts, key, fallback) ==
  IF key \in DOMAIN opts.attrs THEN opts.attrs[key]
  ELSE IF key \in DOMAIN file.attrs THEN file.attrs[key]
  ELSE fallback

\* file.attrs?.[key] ?? opts.attrs?.[key] ?? fallback
ResolveAttr(file, opts, key, fallback) ==
  IF key \in DOMAIN file.attrs THEN file.attrs[key]
  ELSE IF key \in DOMAIN opts.attrs THEN opts.attrs[key]
  ELSE fallback

\* the sum of bytes[lo..hi] (by halving, to keep the evaluation shallow)
RECURSIVE SumRange(_, _, _)
SumRange(bytes, lo, hi) ==
  IF lo > hi THEN 0
  ELSE IF lo = hi THEN bytes[lo]
  ELSE LET mid == (lo + hi) \div 2
       IN  SumRange(bytes, lo, mid) + SumRange(bytes, mid + 1, hi)

\* for (i = 0; i < 512; i++) chksum += header[i]
SumBytes(bytes) == SumRange(bytes, 1, Len(bytes))

\* a checksum summed without blanking the field first
HeaderChecksum_NotBlanked(buffer, offset) == SumBytes(View(buffer, offset, BlockSize))

\* the checksum createTar computes once the other fields are written
\* (item-types.ts 259-264): the field is blanked, then the header is summed
HeaderChecksum(buffer, offset) ==
  LET blanked == _writeString(buffer, Repeat(<<Code.sp>>, 8), offset + 148, 8)
  IN  SumBytes(View(blanked, offset, BlockSize))

\* the header of one file written at offset (item-types.ts 217-265)
WriteHeader(buffer, file, opts, offset, now) ==
  LET isDir == "bytes" \notin DOMAIN file.data
      mode == ResolveAttr(file, opts, "mode", IF isDir THEN S(<<"7", "7", "5">>) ELSE S(<<"6", "6", "4">>))
      uid == ResolveAttr(file, opts, "uid", 1000)
      gid == ResolveAttr(file, opts, "gid", 1000)
      mtime == ResolveAttr(file, opts, "mtime", now)
      type == IF isDir THEN S(<<"5">>) ELSE S(<<"0">>)
      user == ResolveAttr(file, opts, "user", <<>>)
      group == ResolveAttr(file, opts, "group", <<>>)
      b1 == _writeString(buffer, file.name, offset, 100)
      b2 == _writeString(b1, _leftPad(mode, 7), offset + 100, 8)
      b3 == _writeString(b2, _leftPad(ToOctal(uid), 7), offset + 108, 8)
      b4 == _writeString(b3, _leftPad(ToOctal(gid), 7), offset + 116, 8)
      b5 == _writeString(b4, _leftPad(ToOctal(file.size), 11), offset + 124, 12)
      b6 == _writeString(b5, _leftPad(ToOctal(mtime \div 1000), 11), offset + 136, 12)
      b7 == _writeString(b6, type, offset + 156, 1)
      b8 == _writeString(b7, S(<<"u", "s", "t", "a", "r">>), offset + 257, 6)
      b9 == _writeString(b8, S(<<"0", "0">>), offset + 263, 2)
      b10 == _writeString(b9, user, offset + 265, 32)
      b11 == _writeString(b10, group, offset + 297, 32)
  IN  _writeString(b11, ToOctal(HeaderChecksum(b11, offset)), offset + 148, 8)

\* the payload of one file copied after its header (item-types.ts 268-272)
WriteData(buffer, file, offset) ==
  IF "bytes" \in DOMAIN file.data
  THEN WriteAt(buffer, offset + BlockSize, file.data.bytes)
  ELSE buffer

\* the offset after one file (item-types.ts 268-278)
NextOffset(file, offset) ==
  offset + (IF "bytes" \in DOMAIN file.data THEN PaddedSize(file.size) ELSE 0) + BlockSize

(***************************************************************************)
(* parseTar (parse.ts 22-184).                                             *)
(***************************************************************************)
\* the property names the parser reads and writes
Key ==
  [path |-> S(<<"p", "a", "t", "h">>),
   linkpath |-> S(<<"l", "i", "n", "k", "p", "a", "t", "h">>),
   mode |-> S(<<"m", "o", "d", "e">>),
   uid |-> S(<<"u", "i", "d">>),
   gid |-> S(<<"g", "i", "d">>),
   mtime |-> S(<<"m", "t", "i", "m", "e">>),
   user |-> S(<<"u", "s", "e", "r">>),
   group |-> S(<<"g", "r", "o", "u", "p">>)]

\* property values: a string, a number or undefined
Str(s) == [str |-> s]
Num(n) == [num |-> n]

\* an object without properties
EmptyObject == [k \in {} |-> Undefined]

\* {...a, ...b}: the properties of b override those of a
Spread(a, b) ==
  [k \in DOMAIN a \cup DOMAIN b |-> IF k \in DOMAIN b THEN b[k] ELSE a[k]]

\* the properties of an extended-header variable; spreading undefined adds none
Props(header) == IF "map" \in DOMAIN header THEN header.map ELSE EmptyObject

\* whether object[key] is a non-empty string (a truthy value)
Truthy(object, key) ==
  key \in DOMAIN object /\ "str" \in DOMAIN object[key] /\ Len(object[key].str) > 0

\* tarEntryHeaderKeys (item-types.ts 47-50)
tarEntryHeaderKeys ==
  <<"path", "mode", "uid", "gid", "size", "mtime", "checksum", "typeFlag", "linkpath",
    "magic", "version", "user", "group", "devMajor", "devMinor", "prefix", "padding">>

\* tarEntryHeaders (item-types.ts 56-77): offset and size of each header field
tarEntryHeaders ==
  [path |-> <<0, 100>>,
   mode |-> <<100, 8>>,
   uid |-> <<108, 8>>,
   gid |-> <<116, 8>>,
   size |-> <<124, 8>>,
   mtime |-> <<136, 12>>,
   checksum |-> <<148, 8>>,
   typeFlag |-> <<156, 1>>,
   linkpath |-> <<157, 100>>,
   magic |-> <<257, 6>>,
   version |-> <<263, 2>>,
   user |-> <<265, 32>>,
   group |-> <<297, 32>>,
   devMajor |-> <<329, 8>>,
   devMinor |-> <<337, 8>>,
   prefix |-> <<345, 155>>,
   padding |-> <<500, 12>>]

\* tarItemTypeMap (item-types.ts 8-37)
tarItemTypeMap ==
  (48 :> "file") @@ (49 :> "hardLink") @@ (50 :> "symbolicLink")
  @@ (51 :> "characterDevice") @@ (52 :> "blockDevice") @@ (53 :> "directory")
  @@ (54 :> "fifo") @@ (55 :> "contiguousFile")
  @@ (103 :> "globalExtendedHeader") @@ (120 :> "extendedHeader")
  @@ (68 :> "gnuDirectory") @@ (73 :> "gnuInodeMetadata")
  @@ (75 :> "gnuLongLinkName") @@ (76 :> "gnuLongFileName")
  @@ (78 :> "gnuOldLongFileName") @@ (77 :> "gnuMultiVolume")
  @@ (83 :> "gnuSparseFile") @@ (69 :> "gnuExtendedSparse")
  @@ (65 :> "solarisAcl") @@ (86 :> "solarisVolumeLabel")
  @@ (88 :> "solarisOldExtendedHeader")

\* the entry type (parse.ts 73-74): the mapped name, or the raw flag when the
\* map has none ("raw" with the flag kept); an empty flag reads as "0"
TypeOf(flag) ==
  LET _type == IF Len(flag) = 0 THEN Code.zero ELSE flag[1]
  IN  IF _type \in DOMAIN tarItemTypeMap
      THEN [name |-> tarItemTypeMap[_type], flag |-> _type]
      ELSE [name |-> "raw", flag |-> _type]

\* seek (parse.ts 66)
Seek(size) ==
  IF size = NaN THEN NaN
  ELSE BlockSize + BlockSize * TruncDiv(size, BlockSize)
         + (IF RemTruthy(size, BlockSize) THEN BlockSize ELSE 0)

\* one line of an extended header added to headers (parse.ts 275-278)
ExtendedHeaderLine(headers, line) ==
  LET tokens == Split(line, Code.sp)
  IN  IF Len(tokens) < 2 THEN headers
      ELSE LET s == Split(tokens[2], Code.eq)
           IN  Spread(headers,
                      [k \in {s[1]} |-> IF Len(s) >= 2 THEN Str(s[2]) ELSE Undefined])

RECURSIVE ExtendedHeaderLines(_, _)
ExtendedHeaderLines(headers, lines) ==
  IF Len(lines) = 0 THEN headers
  ELSE ExtendedHeaderLines(ExtendedHeaderLine(headers, Head(lines)), Tail(lines))

\* _parseExtendedHeaders (parse.ts 270-281)
_parseExtendedHeaders(data) ==
  ExtendedHeaderLines(EmptyObject, Split(data, Code.nl))

\* the long file-name override (parse.ts 46-51)
LongName(name, nextExtendedHeader) ==
  LET m == Props(nextExtendedHeader)
  IN  IF Truthy(m, Key.path) THEN m[Key.path].str
      ELSE IF Truthy(m, Key.linkpath) THEN m[Key.linkpath].str
      ELSE name

\* the prefix joined to the name (parse.ts 120-130)
JoinPrefix(prefix, name) ==
  LET prefixEndsWithSlash == EndsWith(prefix, <<Code.slash>>)
      nameStartsWithSlash == StartsWith(name, <<Code.slash>>)
  IN  IF Len(prefix) = 0 THEN name
      ELSE IF prefixEndsWithSlash /\ nameStartsWithSlash THEN prefix \o Tail(name)
      ELSE IF prefixEndsWithSlash \/ nameStartsWithSlash THEN prefix \o name
      ELSE prefix \o <<Code.slash>> \o name

\* the filters of the model, by name; "none" is the absent option
FilterAccepts(filter, meta) ==
  CASE filter = "none" -> TRUE
    [] filter = "startsWithF" -> StartsWith(meta.name, S(<<"f">>))
    [] filter = "isFile" -> meta.type.name = "file"
    [] filter = "rejectAll" -> FALSE

\* a parser that skips only the header of an entry the filter rejected
FilterSkip_HeaderOnly(offset, seek) == JsAdd(offset, BlockSize)

\* the cursor after an entry the filter rejected (parse.ts 157-160)
FilterSkip(offset, seek) == JsAdd(offset, seek)

\* the payload view (parse.ts 170)
DataView(buffer, offset, size) ==
  IF size = 0 THEN Undefined
  ELSE [bytes |-> View(buffer, offset + BlockSize, size),
        byteOffset |-> offset + BlockSize]

\* the record pushed otherwise (parse.ts 172-178)
FullItem(meta, buffer, offset) ==
  [name |-> meta.name, type |-> meta.type, size |-> meta.size,
   attrs |-> meta.attrs, data |-> DataView(buffer, offset, meta.size)]

\* a parser that materializes the payload in meta-only mode as well
MetaOnlyItem_WithData(meta, buffer, offset) == FullItem(meta, buffer, offset)

\* the record pushed in meta-only mode (parse.ts 163-167)
MetaOnlyItem(meta, buffer, offset) == meta

\* the text getter (parse.ts 175-177): new TextDecoder().decode(this.data)
Text(item) == IF "bytes" \in DOMAIN item.data THEN item.data.bytes ELSE <<>>

\* the parser's loop variables
ParseInit ==
  [offset |-> 0, nextExtendedHeader |-> Undefined,
   globalExtendedHeader |-> Undefined, files |-> <<>>, status |-> "loop"]

\* the body of the loop for a special record (parse.ts 77-103)
SpecialRecord(buffer, st, type, size, seek) ==
  IF ViewThrows(buffer, st.offset + BlockSize, size)
  THEN [st EXCEPT !.status = "threw"]
  ELSE IF type.name = "extendedHeader"
  THEN [st EXCEPT
          !.nextExtendedHeader =
             [map |-> _parseExtendedHeaders(View(buffer, st.offset + BlockSize, size))],
          !.offset = JsAdd(st.offset, seek)]
  ELSE IF type.name = "globalExtendedHeader"
  THEN [st EXCEPT
          !.nextExtendedHeader = Undefined,
          !.globalExtendedHeader =
             [map |-> Spread(Props(st.globalExtendedHeader),
                             _parseExtendedHeaders(View(buffer, st.offset + BlockSize, size)))],
          !.offset = JsAdd(st.offset, seek)]
  ELSE [st EXCEPT
          !.nextExtendedHeader =
             [map |-> [k \in {Key.path} |->
                         Str(_readString(buffer, st.offset + BlockSize, size))]],
          !.offset = JsAdd(st.offset, seek)]

\* the name of an ordinary entry (parse.ts 40-51, 105-134)
EntryName(buffer, offset, nextExtendedHeader) ==
  LET name == LongName(_readString(buffer, offset, 100), nextExtendedHeader)
      ustar == _readString(buffer, offset + 257, 6)
  IN  _sanitizePath(
        IF ustar = S(<<"u", "s", "t", "a", "r">>)
        THEN JoinPrefix(_readString(buffer, offset + 345, 155), name)
        ELSE name)

\* meta (parse.ts 137-151)
EntryMeta(buffer, st, type, size) ==
  LET offset == st.offset
      isUstar == _readString(buffer, offset + 257, 6) = S(<<"u", "s", "t", "a", "r">>)
      base ==
        [k \in {Key.mode, Key.uid, Key.gid, Key.mtime, Key.user, Key.group} |->
           CASE k = Key.mode -> Str(Trim(_readString(buffer, offset + 100, 8)))
             [] k = Key.uid -> Num(ParseInt(_readString(buffer, offset + 108, 8), 0))
             [] k = Key.gid -> Num(ParseInt(_readString(buffer, offset + 116, 8), 0))
             [] k = Key.mtime -> Num(_readNumber(buffer, offset + 136, 12))
             [] k = Key.user ->
                  IF isUstar THEN Str(_readString(buffer, offset + 265, 32)) ELSE Undefined
             [] k = Key.group ->
                  IF isUstar THEN Str(_readString(buffer, offset + 297, 32)) ELSE Undefined]
  IN  [name |-> EntryName(buffer, offset, st.nextExtendedHeader),
       type |-> type,
       size |-> size,
       attrs |-> Spread(Spread(Props(st.globalExtendedHeader),
                               Props(st.nextExtendedHeader)), base)]

\* the body of the loop for an ordinary entry (parse.ts 105-180)
OrdinaryEntry(buffer, opts, st, type, size, seek) ==
  LET meta == EntryMeta(buffer, st, type, size)
      reset == [st EXCEPT !.nextExtendedHeader = Undefined]
  IN  IF ~FilterAccepts(opts.filter, meta)
      THEN [reset EXCEPT !.offset = FilterSkip(st.offset, seek)]
      ELSE IF opts.metaOnly
      THEN [reset EXCEPT !.files = Append(st.files, MetaOnlyItem(meta, buffer, st.offset)),
                         !.offset = JsAdd(st.offset, seek)]
      ELSE IF size # 0 /\ ViewThrows(buffer, st.offset + BlockSize, size)
      THEN [reset EXCEPT !.status = "threw"]
      ELSE [reset EXCEPT !.files = Append(st.files, FullItem(meta, buffer, st.offset)),
                         !.offset = JsAdd(st.offset, seek)]

\* one pass of the while loop (parse.ts 38-181), or its exit
ParseStep(buffer, opts, st) ==
  IF ~JsLess(st.offset, Len(buffer) - BlockSize)
  THEN [st EXCEPT !.status = "returned"]
  ELSE IF ViewThrows(buffer, st.offset, 100)
  THEN [st EXCEPT !.status = "threw"]
  ELSE IF Len(_readString(buffer, st.offset, 100)) = 0
  THEN [st EXCEPT !.status = "returned"]
  ELSE LET size == _readNumber(buffer, st.offset + 124, 12)
           seek == Seek(size)
           type == TypeOf(_readString(buffer, st.offset + 156, 1))
       IN  IF type.name \in {"extendedHeader", "globalExtendedHeader",
                             "gnuLongFileName", "gnuOldLongFileName",
                             "gnuLongLinkName"}
           THEN SpecialRecord(buffer, st, type, size, seek)
           ELSE OrdinaryEntry(buffer, opts, st, type, size, seek)

\* which branch the next pass takes
StepKind(buffer, st) ==
  IF ~JsLess(st.offset, Len(buffer) - BlockSize) THEN "exit"
  ELSE IF ViewThrows(buffer, st.offset, 100) THEN "throw"
  ELSE IF Len(_readString(buffer, st.offset, 100)) = 0 THEN "exit"
  ELSE IF TypeOf(_readString(buffer, st.offset + 156, 1)).name
            \in {"extendedHeader", "globalExtendedHeader", "gnuLongFileName",
                 "gnuOldLongFileName", "gnuLongLinkName"}
  THEN "special"
  ELSE "entry"

\* parseTar run to its end from loop state st: the final loop state
RECURSIVE ParseFrom(_, _, _, _)
ParseFrom(buffer, opts, st, fuel) ==
  IF st.status # "loop" \/ fuel = 0 THEN st
  ELSE ParseFrom(buffer, opts, ParseStep(buffer, opts, st), fuel - 1)

(***************************************************************************)
(* Inputs.                                                                 *)
(***************************************************************************)
\* all sequences over set of length at most n
RECURSIVE SeqsUpTo(_, _)
SeqsUpTo(set, n) ==
  IF n = 0 THEN {<<>>}
  ELSE LET shorter == SeqsUpTo(set, n - 1)
       IN  shorter \cup {Append(q, x) : q \in {r \in shorter : Len(r) = n - 1}, x \in set}

\* the characters raw paths are enumerated over: a letter, ".", "/", "\", ":"
PathAlphabet == {Chr["a"], Code.dot, Code.slash, Code.bslash, Code.colon}

Paths == SeqsUpTo(PathAlphabet, MaxPathLen)

\* attrs with every attribute given
FullAttrs ==
  [mode |-> S(<<"6", "4", "4">>), uid |-> 1000, gid |-> 1001, mtime |-> 61999,
   user |-> S(<<"j", "s">>), group |-> S(<<"w", "w">>)]

\* the entries createTar is given
InputFiles ==
  { [name |-> S(<<"f", "/", "b">>), data |-> [str |-> S(<<"H", "i">>)], attrs |-> FullAttrs],
    [name |-> S(<<"d">>), data |-> Undefined,
     attrs |-> [uid |-> 1001, gid |-> 1001, mtime |-> 5000]],
    [name |-> S(<<".", ".", "/", ".", ".", "/", "e">>), data |-> [str |-> S(<<"f">>)],
     attrs |-> NoAttrs],
    [name |-> Repeat(S(<<"a">>), 101), data |-> [bytes |-> <<>>], attrs |-> FullAttrs],
    [name |-> S(<<".", "/", "a", "/">>), data |-> Undefined, attrs |-> FullAttrs],
    [name |-> S(<<"/", "C", ":", "/", "w">>), data |-> [bytes |-> Repeat(<<7>>, 9216)],
     attrs |-> FullAttrs],
    [name |-> S(<<".", ".", "/">>), data |-> Undefined, attrs |-> NoAttrs],
    [name |-> Repeat(S(<<"b">>), 100), data |-> [bytes |-> Repeat(<<1, 2, 3>>, 171)],
     attrs |-> [mode |-> S(<<"7">>)]] }

\* the options createTar is given
InputOpts ==
  { [attrs |-> NoAttrs],
    [attrs |-> [uid |-> 8, user |-> S(<<"r">>), mode |-> S(<<"6", "0", "0">>)]] }

\* Date.now() at the call
Nows == {86400123}

\* the options parseTar is given
ParseOpts ==
  [filter : {"none", "startsWithF", "isFile", "rejectAll"}, metaOnly : BOOLEAN]

\* bytes padded with zeros to whole blocks
PadToBlock(bytes) == bytes \o Repeat(<<0>>, PaddedSize(Len(bytes)) - Len(bytes))

\* a header block as another tar implementation writes it, from its fields
ForeignHeader(h) ==
  LET b0 == NewArrayBuffer(BlockSize)
      b1 == _writeString(b0, h.name, 0, 100)
      b2 == _writeString(b1, h.mode, 100, 8)
      b3 == _writeString(b2, h.uid, 108, 8)
      b4 == _writeString(b3, h.gid, 116, 8)
      b5 == _writeString(b4, h.size, 124, 12)
      b6 == _writeString(b5, h.mtime, 136, 12)
      b7 == _writeString(b6, h.typeFlag, 156, 1)
      b8 == _writeString(b7, h.magic, 257, 6)
      b9 == _writeString(b8, h.user, 265, 32)
      b10 == _writeString(b9, h.group, 297, 32)
  IN  _writeString(b10, h.prefix, 345, 155)

\* the fields of a plain ustar header
UstarFields ==
  [name |-> S(<<"f">>), mode |-> S(<<"0", "0", "0", "0", "6", "4", "4">>),
   uid |-> S(<<"0", "0", "0", "1", "7", "5", "0">>),
   gid |-> S(<<"0", "0", "0", "1", "7", "5", "0">>),
   size |-> _leftPad(ToOctal(0), 11), mtime |-> _leftPad(ToOctal(61), 11),
   typeFlag |-> S(<<"0">>), magic |-> S(<<"u", "s", "t", "a", "r">>),
   user |-> S(<<"r">>), group |-> S(<<"w">>), prefix |-> <<>>]

\* a record: its header, then its payload in whole blocks
ForeignRecord(fields, payload) == ForeignHeader(fields) \o PadToBlock(payload)

\* the records foreign archives are made of
ForeignRecords ==
  LET hi == S(<<"H", "i">>)
      longName == S(<<".", ".", "/", ".", ".", "/", "l", "/", "x">>)
      paxPath == S(<<"1", "5", " ", "p", "a", "t", "h", "=", ".", ".", "/", "q", "\\", "r", "\n">>)
      paxUid == S(<<"8", " ", "u", "i", "d", "=", "7", "\n">>)
      longLink == S(<<"t", "/", "y">>)
      gnuLong == Repeat(S(<<"l">>), 100) \o S(<<"/", "a", " ", "b", "=", "c">>)
      paxLong == S(<<"1", "1", "1", " ", "p", "a", "t", "h", "=">>)
                   \o Repeat(S(<<"p">>), 101) \o S(<<"\n">>)
      paxSpaced == S(<<"1", "1", "2", " ", "p", "a", "t", "h", "=">>)
                     \o Repeat(S(<<"p">>), 100) \o S(<<" ", "q", "\n">>)
  IN  { \* a ustar file with a payload
        ForeignRecord([UstarFields EXCEPT !.size = _leftPad(ToOctal(2), 11)], hi),
        \* a v7 file (no magic) with a traversal name
        ForeignRecord([UstarFields EXCEPT !.name = S(<<".", ".", "/", "v">>),
                                          !.magic = <<>>], <<>>),
        \* a ustar directory whose name is split over prefix and name
        ForeignRecord([UstarFields EXCEPT !.name = S(<<"/", "n", "/">>),
                                          !.prefix = S(<<".", ".", "/", "p", "/">>),
                                          !.typeFlag = S(<<"5">>)], <<>>),
        \* a GNU long-name record
        ForeignRecord([UstarFields EXCEPT !.name = S(<<"L">>),
                                          !.typeFlag = S(<<"L">>),
                                          !.size = _leftPad(ToOctal(Len(longName) + 1), 11)],
                      longName \o <<0>>),
        \* a PAX extended header with a path
        ForeignRecord([UstarFields EXCEPT !.name = S(<<"x">>),
                                          !.typeFlag = S(<<"x">>),
                                          !.size = _leftPad(ToOctal(Len(paxPath)), 11)],
                      paxPath),
        \* a PAX global extended header with a uid
        ForeignRecord([UstarFields EXCEPT !.name = S(<<"g">>),
                                          !.typeFlag = S(<<"g">>),
                                          !.size = _leftPad(ToOctal(Len(paxUid)), 11)],
                      paxUid),
        \* a GNU long-name record with a name of 106 bytes, a space and "=" in it
        ForeignRecord([UstarFields EXCEPT !.name = S(<<"L">>),
                                          !.typeFlag = S(<<"L">>),
                                          !.size = _leftPad(ToOctal(Len(gnuLong) + 1), 11)],
                      gnuLong \o <<0>>),
        \* a PAX extended header with a path of 101 bytes
        ForeignRecord([UstarFields EXCEPT !.name = S(<<"x">>),
                                          !.typeFlag = S(<<"x">>),
                                          !.size = _leftPad(ToOctal(Len(paxLong)), 11)],
                      paxLong),
        \* a PAX extended header with a path of 102 bytes, a space in it
        ForeignRecord([UstarFields EXCEPT !.name = S(<<"x">>),
                                          !.typeFlag = S(<<"x">>),
                                          !.size = _leftPad(ToOctal(Len(paxSpaced)), 11)],
                      paxSpaced),
        \* a GNU long-link record
        ForeignRecord([UstarFields EXCEPT !.name = S(<<"K">>),
                                          !.typeFlag = S(<<"K">>),
                                          !.size = _leftPad(ToOctal(Len(longLink) + 1), 11)],
                      longLink \o <<0>>),
        \* a file whose size field is negative
        ForeignRecord([UstarFields EXCEPT !.name = S(<<"n">>),
                                          !.size = S(<<"-", "2", "0", "0", "0">>)], <<>>),
        \* a file whose payload is cut short of its declared size
        ForeignRecord([UstarFields EXCEPT !.name = S(<<"f", "t">>),
                                          !.size = _leftPad(ToOctal(2000), 11)], hi) }

\* the end-of-archive marker: two zero blocks
EndOfArchive == NewArrayBuffer(2 * BlockSize)

RECURSIVE Concat(_)
Concat(seqs) == IF Len(seqs) = 0 THEN <<>> ELSE Head(seqs) \o Concat(Tail(seqs))

\* the special records (L, g, x) with a payload of less than 64 bytes: the
\* first nine of the eleven octal digits of the size field are "0"
ShortPreambles(records) ==
  {r \in records :
     r[157] \in {76, 103, 120} /\ SubSeq(r, 125, 133) = Repeat(<<48>>, 9)}

\* the ordinary entries (file, directory) of size 0
PlainEntries(records) ==
  {r \in records :
     r[157] \in {48, 53} /\ SubSeq(r, 125, 135) = Repeat(<<48>>, 11)}

\* archives of three records: two special records before an entry, and one
\* special record before two entries
ThreeRecordArchives(preambles, entries) ==
  {p \o q \o e \o EndOfArchive : p \in preambles, q \in preambles, e \in entries}
  \cup {p \o e \o f \o EndOfArchive : p \in preambles, e \in entries, f \in entries}

\* the archives of other implementations parseTar is given
ForeignArchives(records) ==
  {Concat(rs) \o EndOfArchive : rs \in SeqsUpTo(records, MaxRecords)}
  \cup ThreeRecordArchives(ShortPreambles(records), PlainEntries(records))

\* new Uint8Array(buffer): a view of the whole buffer
WholeView(buffer) ==
  [buffer |-> buffer, byteOffset |-> 0, byteLength |-> Len(buffer)]

\* new Uint8Array(buffer, byteOffset, length): a view of a part of a buffer
PartView(buffer, byteOffset, length) ==
  [buffer |-> buffer, byteOffset |-> byteOffset, byteLength |-> length]

\* views of a part of an archive of a special record and an entry: the
\* archive without its first record, and its first record alone
PartViews(preambles, entries) ==
  {PartView(p \o e \o EndOfArchive, Len(p), Len(e) + Len(EndOfArchive)) :
     p \in preambles, e \in entries}
  \cup {PartView(p \o e \o EndOfArchive, 0, Len(p)) : p \in preambles, e \in entries}

\* what parseTar is given: a view of a whole archive, or of a part of one
ForeignViews(records) ==
  {WholeView(a) : a \in ForeignArchives(records)}
  \cup PartViews(ShortPreambles(records), PlainEntries(records))

(***************************************************************************)
(* The state machine.                                                      *)
(***************************************************************************)
VARIABLES
  pc,       \* where the program is
  files,    \* createTar: the entries given
  opts,     \* createTar: the options given
  now,      \* createTar: Date.now()
  nfiles,   \* createTar: _files, the normalized entries
  i,        \* createTar: how many of _files the second loop has written
  buffer,   \* createTar: the ArrayBuffer being filled
  offset,   \* createTar: the write cursor
  data,     \* parseTar: the Uint8Array given
  popts,    \* parseTar: the options given
  parse,    \* parseTar: offset, nextExtendedHeader, globalExtendedHeader, files
  path,     \* _sanitizePath: the path given
  result    \* _sanitizePath: the path returned

vars ==
  <<pc, files, opts, now, nfiles, i, buffer, offset, data, popts, parse, path, result>>

NoView == [buffer |-> <<>>, byteOffset |-> 0, byteLength |-> 0]
NoParseOpts == [filter |-> "none", metaOnly |-> FALSE]

InitCreate ==
  /\ pc = "createTar"
  /\ files \in SeqsUpTo(InputFiles, MaxFiles)
  /\ opts \in InputOpts
  /\ now \in Nows
  /\ nfiles = <<>> /\ i = 0 /\ buffer = <<>> /\ offset = 0
  /\ data = NoView /\ popts = NoParseOpts /\ parse = ParseInit
  /\ path = <<>> /\ result = <<>>

InitForeign ==
  /\ pc = "parseTar"
  /\ data \in ForeignViews(ForeignRecords)
  /\ files = <<>> /\ opts = [attrs |-> NoAttrs] /\ now = 0
  /\ nfiles = <<>> /\ i = 0 /\ buffer = <<>> /\ offset = 0
  /\ popts = NoParseOpts /\ parse = ParseInit
  /\ path = <<>> /\ result = <<>>

InitPath ==
  /\ pc = "sanitizePath"
  /\ path \in Paths
  /\ files = <<>> /\ opts = [attrs |-> NoAttrs] /\ now = 0
  /\ nfiles = <<>> /\ i = 0 /\ buffer = <<>> /\ offset = 0
  /\ data = NoView /\ popts = NoParseOpts /\ parse = ParseInit
  /\ result = <<>>

Init == InitCreate \/ InitForeign

\* createTar up to the allocation of the buffer (item-types.ts 186-212)
CreateTarBegin ==
  /\ pc = "createTar"
  /\ nfiles' = [k \in DOMAIN files |-> NormalizeFile(files[k])]
  /\ buffer' = NewArrayBuffer(BufSize(TarDataSize(nfiles')))
  /\ offset' = 0
  /\ i' = 0
  /\ pc' = "createTarLoop"
  /\ UNCHANGED <<files, opts, now, data, popts, parse, path, result>>

\* one pass of the loop over _files (item-types.ts 214-279)
CreateTarFile ==
  /\ pc = "createTarLoop"
  /\ i < Len(nfiles)
  /\ LET file == nfiles[i + 1]
     IN  /\ buffer' = WriteData(WriteHeader(buffer, file, opts, offset, now), file, offset)
         /\ offset' = NextOffset(file, offset)
  /\ i' = i + 1
  /\ UNCHANGED <<pc, files, opts, now, nfiles, data, popts, parse, path, result>>

\* return new Uint8Array(buffer) (item-types.ts 281), handed to parseTar
CreateTarReturn ==
  /\ pc = "createTarLoop"
  /\ i = Len(nfiles)
  /\ data' = WholeView(buffer)
  /\ pc' = "parseTar"
  /\ UNCHANGED <<files, opts, now, nfiles, i, buffer, offset, popts, parse, path, result>>

\* parseTar up to its loop (parse.ts 28-36)
ParseTarBegin ==
  /\ pc = "parseTar"
  /\ popts' \in ParseOpts
  /\ parse' = ParseInit
  /\ pc' = "parseTarLoop"
  /\ UNCHANGED <<files, opts, now, nfiles, i, buffer, offset, data, path, result>>

\* where parseTar is after a pass
PcAfter(status) ==
  CASE status = "loop" -> "parseTarLoop"
    [] status = "returned" -> "returned"
    [] status = "threw" -> "threw"

\* a pass over an x, g, L, N or K record (parse.ts 77-103)
ParseTarSpecial ==
  /\ pc = "parseTarLoop"
  /\ StepKind(data.buffer, parse) = "special"
  /\ parse' = ParseStep(data.buffer, popts, parse)
  /\ pc' = PcAfter(parse'.status)
  /\ UNCHANGED <<files, opts, now, nfiles, i, buffer, offset, data, popts, path, result>>

\* a pass over an ordinary entry (parse.ts 105-180)
\* (an archive has no more entries than blocks: a run with more has entered
\* a cycle of the cursor and is followed no further)
ParseTarEntry ==
  /\ pc = "parseTarLoop"
  /\ StepKind(data.buffer, parse) = "entry"
  /\ Len(parse.files) < Len(data.buffer) \div BlockSize
  /\ parse' = ParseStep(data.buffer, popts, parse)
  /\ pc' = PcAfter(parse'.status)
  /\ UNCHANGED <<files, opts, now, nfiles, i, buffer, offset, data, popts, path, result>>

\* the loop ends and files is returned (parse.ts 38-43, 183)
ParseTarReturn ==
  /\ pc = "parseTarLoop"
  /\ StepKind(data.buffer, parse) = "exit"
  /\ parse' = ParseStep(data.buffer, popts, parse)
  /\ pc' = PcAfter(parse'.status)
  /\ UNCHANGED <<files, opts, now, nfiles, i, buffer, offset, data, popts, path, result>>

\* the header read throws: the cursor is before the buffer (parse.ts 40, 255)
ParseTarThrow ==
  /\ pc = "parseTarLoop"
  /\ StepKind(data.buffer, parse) = "throw"
  /\ parse' = ParseStep(data.buffer, popts, parse)
  /\ pc' = PcAfter(parse'.status)
  /\ UNCHANGED <<files, opts, now, nfiles, i, buffer, offset, data, popts, path, result>>

\* _sanitizePath called on its own
SanitizePath ==
  /\ pc = "sanitizePath"
  /\ result' = _sanitizePath(path)
  /\ pc' = "sanitized"
  /\ UNCHANGED <<files, opts, now, nfiles, i, buffer, offset, data, popts, parse, path>>

Next ==
  \/ CreateTarBegin
  \/ CreateTarFile
  \/ CreateTarReturn
  \/ ParseTarBegin
  \/ ParseTarSpecial
  \/ ParseTarEntry
  \/ ParseTarReturn
  \/ ParseTarThrow

Spec == Init /\ [][Next]_vars

NextPaths == Next \/ SanitizePath

\* the same program, with the sanitizer also run on every enumerated path
SpecPaths == (Init \/ InitPath) /\ [][NextPaths]_vars

(***************************************************************************)
(* Properties.                                                             *)
(***************************************************************************)
\* parseTar run to its end on a buffer (parse.ts 29-184): the final loop state
ParseTar(buf, o) == ParseFrom(buf, o, ParseInit, Len(buf) \div BlockSize + 2)

\* parseTar is working on, or is done with, the archive createTar returned
FromCreateTar ==
  /\ pc \in {"parseTar", "parseTarLoop", "returned", "threw"}
  /\ data.buffer = buffer

\* parseTar is done, one way or the other
ParseDone == pc \in {"returned", "threw"}

\* what the caller gave as one entry: its payload bytes, its kind, its size
InputBytes(file) ==
  IF "str" \in DOMAIN file.data THEN file.data.str
  ELSE IF "bytes" \in DOMAIN file.data THEN file.data.bytes
  ELSE <<>>

InputIsDirectory(file) == "str" \notin DOMAIN file.data /\ "bytes" \notin DOMAIN file.data

RoundUpToBlock(n) == ((n + 511) \div 512) * 512

\* the bytes the first k entries need: a header block and a padded payload each
RECURSIVE RequiredSize(_, _)
RequiredSize(fs, k) ==
  IF k = 0 THEN 0
  ELSE RequiredSize(fs, k - 1) + 512 + RoundUpToBlock(Len(InputBytes(fs[k])))

AllAttrsGiven(file) ==
  DOMAIN file.attrs = {"mode", "uid", "gid", "mtime", "user", "group"}

\* a parsed entry is the entry that was given
SameEntry(item, file) ==
  /\ item.name = file.name
  /\ item.size = Len(InputBytes(file))
  /\ item.type.name = (IF InputIsDirectory(file) THEN "directory" ELSE "file")
  /\ item.attrs[Key.mode] = Str(file.attrs.mode)
  /\ item.attrs[Key.uid] = Num(file.attrs.uid)
  /\ item.attrs[Key.gid] = Num(file.attrs.gid)
  /\ item.attrs[Key.mtime] = Num(file.attrs.mtime)
  /\ item.attrs[Key.user] = Str(file.attrs.user)
  /\ item.attrs[Key.group] = Str(file.attrs.group)
  /\ Text(item) = InputBytes(file)

\* C1: whenever createTar is given entries whose attributes are all
\* specified and parseTar is run without options on what it returns, parseTar
\* returns exactly the entries given: as many, in the same order, each with
\* the same name, size, type, attributes and bytes.
C1_RoundTripIdentity ==
  (/\ FromCreateTar /\ ParseDone
   /\ popts = NoParseOpts
   /\ \A k \in DOMAIN files : AllAttrsGiven(files[k]))
  => /\ pc = "returned"
     /\ Len(parse.files) = Len(files)
     /\ \A k \in DOMAIN files : SameEntry(parse.files[k], files[k])

\* the segments of a path, "\" taken as a separator as well as "/"
Segments(name) ==
  Split([j \in DOMAIN name |-> IF name[j] = Code.bslash THEN Code.slash ELSE name[j]],
        Code.slash)

HasDotDotSegment(name) ==
  \E j \in DOMAIN Segments(name) : Segments(name)[j] = <<Code.dot, Code.dot>>

\* C2: no name parseTar has returned, and no path _sanitizePath has
\* returned, has a segment equal to "..".
C2_NoDotDotSegment ==
  /\ \A k \in DOMAIN parse.files : ~HasDotDotSegment(parse.files[k].name)
  /\ pc = "sanitized" => ~HasDotDotSegment(result)

\* parseTar returned "l/x" for an entry a GNU long-name record named "../../l/x"
C2_Witness ==
  /\ pc = "returned"
  /\ ~FromCreateTar
  /\ \E k \in DOMAIN parse.files : parse.files[k].name = S(<<"l", "/", "x">>)

\* C3: no name parseTar has returned begins with "/".
C3_NeverAbsolute ==
  \A k \in DOMAIN parse.files : ~StartsWith(parse.files[k].name, <<Code.slash>>)

\* a name begins with a drive-letter prefix, slashes before it or not
HasDrivePrefix(name) ==
  \E j \in 1..Len(name) :
    /\ \A h \in 1..(j - 1) : name[h] = Code.slash
    /\ j + 2 <= Len(name)
    /\ name[j] \in (65..90) \cup (97..122)
    /\ name[j + 1] = Code.colon
    /\ name[j + 2] = Code.slash

\* C4: no name parseTar has returned begins with a drive-letter prefix.
C4_NoDrivePrefix ==
  \A k \in DOMAIN parse.files : ~HasDrivePrefix(parse.files[k].name)

\* a safe relative path: an optional "./", then non-empty segments none of
\* which is "." or "..", then an optional "/"; no backslash, no drive prefix
IsSafePath(p) ==
  LET body0 == IF StartsWith(p, <<Code.dot, Code.slash>>) THEN SubSeq(p, 3, Len(p)) ELSE p
      body == IF EndsWith(body0, <<Code.slash>>) THEN SubSeq(body0, 1, Len(body0) - 1) ELSE body0
      segs == Split(body, Code.slash)
  IN  /\ \A j \in DOMAIN p : p[j] # Code.bslash
      /\ \A j \in DOMAIN segs : segs[j] \notin {<<>>, <<Code.dot>>, <<Code.dot, Code.dot>>}
      /\ ~HasDrivePrefix(p)

\* createTar was given one entry and parseTar, not filtering, has returned
SingleEntryRoundTrip ==
  /\ FromCreateTar
  /\ ParseDone
  /\ popts.filter = "none"
  /\ Len(files) = 1

C6_BlockAlignment ==
  /\ (pc = "createTarLoop" \/ FromCreateTar)
     => /\ Len(buffer) % 10240 = 0
        /\ Len(buffer) >= RequiredSize(files, Len(files))
  /\ FromCreateTar => (data.byteLength = Len(buffer) /\ data.byteOffset = 0)

\* createTar has returned an archive of two records for two entries
C6_Witness ==
  /\ pc = "parseTar"
  /\ FromCreateTar
  /\ Len(files) = 2
  /\ RequiredSize(files, 2) > 10240
  /\ Len(data.buffer) = 20480

\* the value of a string of octal digits, -1 if it is not one
RECURSIVE OctalValue(_)
OctalValue(digits) ==
  IF Len(digits) = 0 THEN 0
  ELSE LET last == digits[Len(digits)]
           rest == OctalValue(SubSeq(digits, 1, Len(digits) - 1))
       IN  IF last \in 48..55 /\ rest >= 0 THEN 8 * rest + (last - 48) ELSE -1

\* the header block of the k-th entry written
HeaderOf(k) ==
  SubSeq(buffer, RequiredSize(files, k - 1) + 1, RequiredSize(files, k - 1) + 512)

\* the text in the checksum field of a header: its bytes up to the first NUL
ChecksumText(header) ==
  LET field == SubSeq(header, 149, 156)
      nuls == {j \in 1..8 : field[j] = 0}
      end == IF nuls = {} THEN 8 ELSE (CHOOSE j \in nuls : \A h \in nuls : j <= h) - 1
  IN  SubSeq(field, 1, end)

\* the sum of the bytes of a header with its checksum field read as spaces
BlankedSum(header) ==
  SumRange(header, 1, 148) + 8 * 32 + SumRange(header, 157, 512)

\* C7: in every header createTar has written, the checksum field holds, in
\* octal, the sum of the 512 bytes of the header with the field's own eight
\* bytes counted as spaces.
C7_ChecksumValid ==
  pc \in {"createTarLoop", "parseTar"}
  => \A k \in 1..i :
       /\ Len(ChecksumText(HeaderOf(k))) > 0
       /\ OctalValue(ChecksumText(HeaderOf(k))) = BlankedSum(HeaderOf(k))

\* createTar has written the headers of two entries, the first with a payload
C7_Witness ==
  /\ pc = "createTarLoop"
  /\ i = 2
  /\ Len(InputBytes(files[1])) > 0
  /\ BlankedSum(HeaderOf(2)) > 256

\* C8: the buffer createTar returns for a non-empty list ends with at least
\* one all-zero 512-byte block after the padded payload of the last entry.
C8_EndOfArchiveBlock ==
  (pc = "parseTar" /\ FromCreateTar /\ Len(files) > 0)
  => /\ Len(buffer) >= RequiredSize(files, Len(files)) + 512
     /\ \A j \in (RequiredSize(files, Len(files)) + 1)..Len(buffer) : buffer[j] = 0

\* the entries of a list that the filter accepts, in order
Accepted(filter, items) == SelectSeq(items, LAMBDA item : FilterAccepts(filter, item))

\* parseTar run without a filter on the buffer the program is parsing
Unfiltered == ParseTar(data.buffer, [filter |-> "none", metaOnly |-> popts.metaOnly])

\* C9: when parseTar returns, what it returns under a filter is the entries
\* the filter accepts among those parseTar without a filter returns for the
\* same buffer, in the same order: a rejected entry moves the cursor past its
\* header and its padded payload.
C9_FilterIsSubset ==
  (pc = "returned" /\ Unfiltered.status = "returned")
  => parse.files = Accepted(popts.filter, Unfiltered.files)

\* the filter rejected an entry with a payload and accepted the one after it
C9_Witness ==
  /\ pc = "returned"
  /\ FromCreateTar
  /\ popts.filter = "startsWithF"
  /\ Len(files) = 2
  /\ Len(InputBytes(files[1])) > 0
  /\ Len(Unfiltered.files) = 2
  /\ Len(parse.files) = 1
  /\ parse.files[1].name = S(<<"f", "/", "b">>)

\* C10: with metaOnly set, no entry parseTar collects has a data property.
C10_MetaOnlyNoData ==
  popts.metaOnly => \A k \in DOMAIN parse.files : "data" \notin DOMAIN parse.files[k]

\* parseTar with metaOnly has returned an entry that has a payload
C10_Witness ==
  /\ pc = "returned"
  /\ popts.metaOnly
  /\ \E k \in DOMAIN parse.files :
       /\ parse.files[k].size > 0
       /\ parse.files[k].size + 512 <= Len(data.buffer)

\* the type flag and the size field of a header block
TypeFlagOf(header) == header[157]
SizeFieldOf(header) == SubSeq(header, 125, 136)

\* C11: every entry given without data is written with type flag "5" and
\* size 0 and takes exactly one 512-byte block, and parseTar, run without
\* options on the archive, returns it with type directory, size 0, no data
\* and an empty text.
C11_DirectoryEntries ==
  /\ pc \in {"createTarLoop", "parseTar"}
     => /\ offset = RequiredSize(files, i)
        /\ \A k \in 1..i :
             InputIsDirectory(files[k])
             => /\ TypeFlagOf(HeaderOf(k)) = 53
                /\ SizeFieldOf(HeaderOf(k)) = <<48, 48, 48, 48, 48, 48, 48, 48, 48, 48, 48, 0>>
                /\ RequiredSize(files, k) = RequiredSize(files, k - 1) + 512
  /\ (FromCreateTar /\ ParseDone /\ popts = NoParseOpts)
     => /\ pc = "returned"
        /\ \A k \in DOMAIN files :
             InputIsDirectory(files[k])
             => /\ k \in DOMAIN parse.files
                /\ parse.files[k].type.name = "directory"
                /\ parse.files[k].size = 0
                /\ parse.files[k].data = Undefined
                /\ Text(parse.files[k]) = <<>>

\* the text in a field of a header: its bytes up to the first NUL
FieldText(header, start, size) ==
  LET field == SubSeq(header, start + 1, start + size)
      nuls == {j \in 1..size : field[j] = 0}
      end == IF nuls = {} THEN size ELSE (CHOOSE j \in nuls : \A h \in nuls : j <= h) - 1
  IN  SubSeq(field, 1, end)

\* a string padded with "0" on the left to a width
ZeroPadded(s, width) ==
  IF Len(s) >= width THEN s ELSE [j \in 1..(width - Len(s)) |-> 48] \o s

\* the attribute an entry is to be written with: the entry's own, else the
\* archive-wide one, else the default
Expected(k, key, default) ==
  IF key \in DOMAIN files[k].attrs THEN files[k].attrs[key]
  ELSE IF key \in DOMAIN opts.attrs THEN opts.attrs[key]
  ELSE default

\* C12: in every header createTar has written, mode, uid, gid, mtime, user
\* and group hold the entry's own attribute if it has one, else the one of
\* options.attrs if it has one, else the default: mode "664" for a file and
\* "775" for a directory, uid 1000, gid 1000, the current time, user and
\* group empty.
C12_AttributeResolution ==
  pc \in {"createTarLoop", "parseTar"}
  => \A k \in 1..i :
       LET header == HeaderOf(k)
           defaultMode == IF InputIsDirectory(files[k])
                          THEN <<55, 55, 53>> ELSE <<54, 54, 52>>
       IN  /\ FieldText(header, 100, 8) = ZeroPadded(Expected(k, "mode", defaultMode), 7)
           /\ Len(FieldText(header, 108, 8)) = 7
           /\ OctalValue(FieldText(header, 108, 8)) = Expected(k, "uid", 1000)
           /\ Len(FieldText(header, 116, 8)) = 7
           /\ OctalValue(FieldText(header, 116, 8)) = Expected(k, "gid", 1000)
           /\ OctalValue(FieldText(header, 136, 12)) = Expected(k, "mtime", now) \div 1000
           /\ FieldText(header, 265, 32) = Expected(k, "user", <<>>)
           /\ FieldText(header, 297, 32) = Expected(k, "group", <<>>)

\* createTar has written an entry that has a mode of its own but no uid, gid
\* or user, under options that give a mode, a uid and a user but no gid
C12_Witness ==
  /\ pc = "createTarLoop"
  /\ i >= 1
  /\ DOMAIN files[1].attrs = {"mode"}
  /\ DOMAIN opts.attrs = {"uid", "user", "mode"}
  /\ files[1].attrs.mode # opts.attrs.mode
  /\ OctalValue(FieldText(HeaderOf(1), 108, 8)) = opts.attrs.uid
  /\ OctalValue(FieldText(HeaderOf(1), 116, 8)) = 1000

\* the block at parseTar's cursor, when the buffer holds a whole one there
CursorInBuffer ==
  /\ pc \in {"parseTarLoop", "returned", "threw"}
  /\ parse.offset >= 0
  /\ parse.offset + 512 <= Len(data.buffer)

CursorHeader == SubSeq(data.buffer, parse.offset + 1, parse.offset + 512)

\* the header at the cursor has a name and declares, in octal digits, a size
\* whose payload would end past the end of the buffer
TruncatedAtCursor ==
  /\ CursorInBuffer
  /\ Len(FieldText(CursorHeader, 0, 100)) > 0
  /\ OctalValue(FieldText(CursorHeader, 124, 12)) >= 0
  /\ parse.offset + 512 + OctalValue(FieldText(CursorHeader, 124, 12)) > Len(data.buffer)

\* C13: when the header at the cursor declares a payload that extends past
\* the end of the buffer, parseTar ends by returning, never by raising an
\* error.
C13_TruncatedArchiveReturns ==
  (ParseDone /\ TruncatedAtCursor) => pc = "returned"

\* the header block and the payload of the first record of the buffer parsed
FirstHeader == SubSeq(data.buffer, 1, 512)
FirstPayload == SubSeq(data.buffer, 513, 512 + OctalValue(FieldText(FirstHeader, 124, 12)))
SecondHeader ==
  LET start == 512 + RoundUpToBlock(OctalValue(FieldText(FirstHeader, 124, 12)))
  IN  SubSeq(data.buffer, start + 1, start + 512)

\* the value of a string of decimal digits
RECURSIVE DecimalValue(_)
DecimalValue(digits) ==
  IF Len(digits) = 0 THEN 0
  ELSE 10 * DecimalValue(SubSeq(digits, 1, Len(digits) - 1)) + (digits[Len(digits)] - 48)

\* the value of the record "<length> path=<value>\n" a PAX payload begins
\* with, <length> being the length of the whole record; <<>> without one
PaxPathValue(payload) ==
  LET spaces == {j \in DOMAIN payload : payload[j] = 32}
      sp == IF spaces = {} THEN 0 ELSE CHOOSE j \in spaces : \A h \in spaces : j <= h
  IN  IF sp > 1 /\ SubSeq(payload, sp + 1, sp + 5) = <<112, 97, 116, 104, 61>>
          /\ \A j \in 1..(sp - 1) : payload[j] \in 48..57
          /\ DecimalValue(SubSeq(payload, 1, sp - 1)) \in (sp + 6)..Len(payload)
      THEN SubSeq(payload, sp + 6, DecimalValue(SubSeq(payload, 1, sp - 1)) - 1)
      ELSE <<>>

\* the name the first record of the buffer carries for the entry after it:
\* the payload of a GNU "L" record up to its NUL, the path of a PAX "x" header
CarriedName ==
  IF FirstHeader[157] = 76 THEN FieldText(FirstPayload, 0, Len(FirstPayload))
  ELSE IF FirstHeader[157] = 120 THEN PaxPathValue(FirstPayload)
  ELSE <<>>

\* parseTar, not filtering, has returned from a foreign archive that begins
\* with a long-name record and, after it, an ordinary entry without a prefix
LongNameCase ==
  /\ pc = "returned"
  /\ ~FromCreateTar
  /\ popts.filter = "none"
  /\ Len(data.buffer) >= 2560
  /\ FirstHeader[157] \in {76, 120}
  /\ Len(CarriedName) > 100
  /\ IsSafePath(CarriedName)
  /\ SecondHeader[157] \in {0, 48, 53}
  /\ Len(FieldText(SecondHeader, 0, 100)) > 0
  /\ Len(FieldText(SecondHeader, 345, 155)) = 0

\* C14: an ordinary entry that follows a GNU long-name record, or a PAX
\* extended header with a path record, carrying a name of more than 100
\* bytes that is in sanitized form is returned with exactly that name, spaces
\* and "=" in it included.
C14_LongNameReconstruction ==
  LongNameCase => (Len(parse.files) >= 1 /\ parse.files[1].name = CarriedName)

\* the number whose decimal digits are the octal digits of n
RECURSIVE OctalDigitsReadAsDecimal(_)
OctalDigitsReadAsDecimal(n) ==
  IF n < 8 THEN n ELSE 10 * OctalDigitsReadAsDecimal(n \div 8) + (n % 8)

\* parseTar, not filtering, has returned from the archive createTar made
UnfilteredRoundTrip ==
  /\ FromCreateTar
  /\ pc = "returned"
  /\ popts.filter = "none"

C17_StopCondition ==
  (pc = "returned" /\ parse.offset >= 0)
  => \/ Len(data.buffer) - parse.offset < 512
     \/ Len(FieldText(CursorHeader, 0, 100)) = 0

\* C18: every pass of parseTar's loop after which the loop goes on moves the
\* cursor forward by 512 bytes at least, whatever the size field holds.
C18_CursorAdvances ==
  [][(pc = "parseTarLoop" /\ pc' = "parseTarLoop")
       => parse'.offset >= parse.offset + 512]_vars

\* C19: uid, gid, size and mtime of an entry parseTar returns are the values
\* in base 8 of the octal digits that the fields of its header hold.
C19_NumericFieldsOctal ==
  UnfilteredRoundTrip
  => \A k \in DOMAIN parse.files :
       /\ parse.files[k].size = OctalValue(FieldText(HeaderOf(k), 124, 12))
       /\ parse.files[k].attrs[Key.mtime] = Num(OctalValue(FieldText(HeaderOf(k), 136, 12)))
       /\ parse.files[k].attrs[Key.uid] = Num(OctalValue(FieldText(HeaderOf(k), 108, 8)))
       /\ parse.files[k].attrs[Key.gid] = Num(OctalValue(FieldText(HeaderOf(k), 116, 8)))

\* the value of the record "<length> uid=<value>\n" a PAX payload begins
\* with; <<>> without one
PaxUidValue(payload) ==
  LET spaces == {j \in DOMAIN payload : payload[j] = 32}
      sp == IF spaces = {} THEN 0 ELSE CHOOSE j \in spaces : \A h \in spaces : j <= h
  IN  IF sp > 1 /\ SubSeq(payload, sp + 1, sp + 4) = <<117, 105, 100, 61>>
          /\ \A j \in 1..(sp - 1) : payload[j] \in 48..57
          /\ DecimalValue(SubSeq(payload, 1, sp - 1)) \in (sp + 5)..Len(payload)
      THEN SubSeq(payload, sp + 5, DecimalValue(SubSeq(payload, 1, sp - 1)) - 1)
      ELSE <<>>

\* parseTar, not filtering, has returned from a foreign archive that begins
\* with a PAX header, global or entry-scoped, giving a uid and, after it, an
\* ordinary entry
PaxUidCase ==
  /\ pc = "returned"
  /\ ~FromCreateTar
  /\ popts.filter = "none"
  /\ Len(data.buffer) >= 2560
  /\ FirstHeader[157] \in {103, 120}
  /\ Len(PaxUidValue(FirstPayload)) > 0
  /\ SecondHeader[157] \in {0, 48, 53}
  /\ Len(FieldText(SecondHeader, 0, 100)) > 0

\* C20: a value a PAX extended header gives for a field of the entry
\* overrides the value of the base header: the uid of an entry that follows
\* a PAX header with a uid record is the uid of that record.
C20_PaxOverridesBaseHeader ==
  PaxUidCase
  => /\ Len(parse.files) >= 1
     /\ parse.files[1].attrs[Key.uid]
          \in {Str(PaxUidValue(FirstPayload)), Num(DecimalValue(PaxUidValue(FirstPayload)))}

\* the type flags of the records parseTar does not emit: x, g, L, K, N
SpecialFlags == {120, 103, 76, 75, 78}

\* a pass of parseTar's loop after which the loop goes on
LoopPass == pc = "parseTarLoop" /\ pc' = "parseTarLoop" /\ parse' # parse

\* C21: a pass over an x, g, L, K or N record emits nothing; a pending
\* entry-scoped override stays pending until the next ordinary entry, so a
\* pass over a g header leaves it as it is; and a pass over an ordinary
\* entry clears it, whether the entry is emitted, rejected by the filter or
\* emitted in metaOnly mode.
C21_OverrideLifetime ==
  [][LoopPass
       => IF CursorHeader[157] \in SpecialFlags
          THEN /\ parse'.files = parse.files
               /\ CursorHeader[157] = 103
                  => parse'.nextExtendedHeader = parse.nextExtendedHeader
          ELSE parse'.nextExtendedHeader = Undefined]_vars

\* the entry the pass has emitted
Emitted == parse'.files[Len(parse'.files)]

\* C22: the global layer never loses a key, and only a g header changes
\* it; every ordinary entry emitted while the global layer holds a key that
\* the entry-scoped layer does not hold carries the global value of that key
\* (as the text of the header or as the number it denotes).
C22_GlobalPersistence ==
  [][LoopPass
       => /\ DOMAIN Props(parse.globalExtendedHeader)
               \subseteq DOMAIN Props(parse'.globalExtendedHeader)
          /\ CursorHeader[157] # 103
               => parse'.globalExtendedHeader = parse.globalExtendedHeader
          /\ Len(parse'.files) > Len(parse.files)
               => \A k \in DOMAIN Props(parse.globalExtendedHeader)
                            \ DOMAIN Props(parse.nextExtendedHeader) :
                    /\ k \in DOMAIN Emitted.attrs
                    /\ Emitted.attrs[k]
                         \in {Props(parse.globalExtendedHeader)[k],
                              Num(DecimalValue(Props(parse.globalExtendedHeader)[k].str))}]_vars

\* parseTar has just passed the PAX extended header, with a path record,
\* that a foreign archive begins with
PaxRecordCase ==
  /\ pc = "parseTarLoop"
  /\ ~FromCreateTar
  /\ Len(data.buffer) >= 1024
  /\ FirstHeader[157] = 120
  /\ Len(PaxPathValue(FirstPayload)) > 0
  /\ parse.files = <<>>
  /\ parse.offset = 512 + RoundUpToBlock(OctalValue(FieldText(FirstHeader, 124, 12)))

\* C23: the value stored for the key of a PAX record "<len> <key>=<value>\n"
\* is the whole text between the first "=" and the end of the record, spaces
\* and further "=" included: after the pass over an x header with a path
\* record, the pending path is that text.
C23_PaxRecordValue ==
  PaxRecordCase
  => /\ Key.path \in DOMAIN Props(parse.nextExtendedHeader)
     /\ Props(parse.nextExtendedHeader)[Key.path] = Str(PaxPathValue(FirstPayload))

\* prefix and name joined by exactly one "/"
JoinedByOneSlash(prefix, name) ==
  (IF EndsWith(prefix, <<47>>) THEN SubSeq(prefix, 1, Len(prefix) - 1) ELSE prefix)
  \o <<47>>
  \o (IF StartsWith(name, <<47>>) THEN Tail(name) ELSE name)

\* the name a header gives by itself: its name field, after its prefix field
\* when it is a USTAR header with a prefix, sanitized
HeaderName(header) ==
  _sanitizePath(
    IF FieldText(header, 257, 6) = <<117, 115, 116, 97, 114>>
       /\ Len(FieldText(header, 345, 155)) > 0
    THEN JoinedByOneSlash(FieldText(header, 345, 155), FieldText(header, 0, 100))
    ELSE FieldText(header, 0, 100))

\* parseTar, not filtering, has returned from a foreign archive that begins
\* with an ordinary entry
PlainFirstCase ==
  /\ pc = "returned"
  /\ ~FromCreateTar
  /\ popts.filter = "none"
  /\ Len(data.buffer) >= 1536
  /\ FirstHeader[157] \in {0, 48, 53}
  /\ Len(FieldText(FirstHeader, 0, 100)) > 0
  /\ OctalValue(FieldText(FirstHeader, 124, 12)) = 0

\* parseTar, not filtering, has returned from a foreign archive that begins
\* with a record carrying a name and, after it, an ordinary entry
OverridePendingCase ==
  /\ pc = "returned"
  /\ ~FromCreateTar
  /\ popts.filter = "none"
  /\ Len(data.buffer) >= 2560
  /\ FirstHeader[157] \in {76, 120}
  /\ Len(CarriedName) > 0
  /\ SecondHeader[157] \in {0, 48, 53}
  /\ Len(FieldText(SecondHeader, 0, 100)) > 0

\* C24: the name of an ordinary entry for which an override is pending is
\* the sanitized override, whatever the prefix field of the entry holds; the
\* name of a USTAR entry without a pending override and with a prefix is the
\* sanitized join of prefix and name by one "/".
C24_NameResolution ==
  /\ OverridePendingCase
     => /\ Len(parse.files) >= 1
        /\ parse.files[1].name = _sanitizePath(CarriedName)
  /\ PlainFirstCase
     => /\ Len(parse.files) >= 1
        /\ parse.files[1].name = HeaderName(FirstHeader)

\* parseTar, not filtering, has returned from a foreign archive that begins
\* with a GNU long-link record and, after it, an ordinary entry
LongLinkCase ==
  /\ pc = "returned"
  /\ ~FromCreateTar
  /\ popts.filter = "none"
  /\ Len(data.buffer) >= 2560
  /\ FirstHeader[157] = 75
  /\ SecondHeader[157] \in {0, 48, 53}
  /\ Len(FieldText(SecondHeader, 0, 100)) > 0

\* C25: a GNU long-link record does not change the name of the entry after
\* it: the entry is returned under the name its own header gives.
C25_LinkNameOnly ==
  LongLinkCase
  => /\ Len(parse.files) >= 1
     /\ parse.files[1].name = HeaderName(SecondHeader)

\* C26: in every header createTar has written, the checksum field holds six
\* octal digits, zero-padded on the left, whose value is the byte-sum of the
\* header with the field counted as spaces.
C26_ChecksumSixDigits ==
  pc \in {"createTarLoop", "parseTar"}
  => \A k \in 1..i :
       /\ Len(ChecksumText(HeaderOf(k))) = 6
       /\ OctalValue(ChecksumText(HeaderOf(k))) = BlankedSum(HeaderOf(k))

\* the fixed layout of a header block: offset and size of each field
FixedLayout ==
  [path |-> <<0, 100>>, mode |-> <<100, 8>>, uid |-> <<108, 8>>, gid |-> <<116, 8>>,
   size |-> <<124, 12>>, mtime |-> <<136, 12>>, checksum |-> <<148, 8>>,
   typeFlag |-> <<156, 1>>, linkpath |-> <<157, 100>>, magic |-> <<257, 6>>,
   version |-> <<263, 2>>, user |-> <<265, 32>>, group |-> <<297, 32>>,
   devMajor |-> <<329, 8>>, devMinor |-> <<337, 8>>, prefix |-> <<345, 155>>]

\* C27: the table of header fields gives each field of the fixed layout its
\* offset and size; taken in the order of the keys, the first field starts
\* at 0, each field starts where the one before it ends, and the last one,
\* the padding, ends at 512; so the size field of a header createTar has
\* written, read at the offset and over the size the table gives, is the
\* eleven octal digits of the size of the entry.
C27_HeaderLayout ==
  (pc \in {"createTarLoop", "parseTar"} /\ i >= 1)
  => /\ \A key \in DOMAIN FixedLayout : tarEntryHeaders[key] = FixedLayout[key]
     /\ tarEntryHeaders[tarEntryHeaderKeys[1]][1] = 0
     /\ \A j \in 1..(Len(tarEntryHeaderKeys) - 1) :
          tarEntryHeaders[tarEntryHeaderKeys[j + 1]][1]
            = tarEntryHeaders[tarEntryHeaderKeys[j]][1]
              + tarEntryHeaders[tarEntryHeaderKeys[j]][2]
     /\ tarEntryHeaders[tarEntryHeaderKeys[Len(tarEntryHeaderKeys)]][1]
          + tarEntryHeaders[tarEntryHeaderKeys[Len(tarEntryHeaderKeys)]][2] = 512
     /\ \A k \in 1..i :
          FieldText(HeaderOf(k), tarEntryHeaders.size[1], tarEntryHeaders.size[2])
            = ZeroPadded(ToOctal(Len(InputBytes(files[k]))), 11)

\* C28: sanitizing a sanitized path changes nothing: the result of
\* _sanitizePath, and every name parseTar returns, is a fixed point of
\* _sanitizePath.
C28_SanitizeIdempotent ==
  /\ pc = "sanitized" => _sanitizePath(result) = result
  /\ pc = "returned"
     => \A k \in DOMAIN parse.files : _sanitizePath(parse.files[k].name) = parse.files[k].name

\* parseTar run on the same buffer with the same filter and the other value
\* of metaOnly
OtherMode == ParseTar(data.buffer, [filter |-> popts.filter, metaOnly |-> ~popts.metaOnly])

\* C29: parseTar with metaOnly and parseTar without it, on the same buffer
\* and with the same filter, fail together, and when they return they return
\* as many entries, in the same order, with the same name, type, size and
\* attrs.
C29_MetaOnlyProjection ==
  ParseDone
  => /\ (pc = "threw") <=> (OtherMode.status = "threw")
     /\ pc = "returned"
        => /\ Len(OtherMode.files) = Len(parse.files)
           /\ \A k \in DOMAIN parse.files :
                /\ OtherMode.files[k].name = parse.files[k].name
                /\ OtherMode.files[k].type = parse.files[k].type
                /\ OtherMode.files[k].size = parse.files[k].size
                /\ OtherMode.files[k].attrs = parse.files[k].attrs

\* a fresh copy of exactly the bytes of a view
Copy(view) == SubSeq(view.buffer, view.byteOffset + 1, view.byteOffset + view.byteLength)

\* the payload bytes an entry returned gives access to
PayloadOf(item) == IF "data" \in DOMAIN item THEN Text(item) ELSE <<>>

\* parseTar run, with the same options, on a fresh copy of its argument
FromCopy == ParseTar(Copy(data), popts)

\* C30: parseTar ends on a view as it ends on a fresh copy of the bytes of
\* the view, and returns the same entries, with the same name, type, size,
\* attrs and payload bytes; every data view returned lies within the byte
\* range of the view given.
C30_ViewBytesOnly ==
  ParseDone
  => /\ parse.status = FromCopy.status
     /\ pc = "returned"
        => /\ Len(parse.files) = Len(FromCopy.files)
           /\ \A k \in DOMAIN parse.files :
                /\ parse.files[k].name = FromCopy.files[k].name
                /\ parse.files[k].type = FromCopy.files[k].type
                /\ parse.files[k].size = FromCopy.files[k].size
                /\ parse.files[k].attrs = FromCopy.files[k].attrs
                /\ PayloadOf(parse.files[k]) = PayloadOf(FromCopy.files[k])
                /\ ("data" \in DOMAIN parse.files[k]
                      /\ "bytes" \in DOMAIN parse.files[k].data)
                   => /\ parse.files[k].data.byteOffset >= data.byteOffset
                      /\ parse.files[k].data.byteOffset + Len(parse.files[k].data.bytes)
                           <= data.byteOffset + data.byteLength

====
